---- MODULE Spec2Model ----
\* Model of lighthouse-core/audits/treemap-data.js:
\*   TreemapDataAudit.prepareTreemapNodes (path tree construction and collapsing)
\*   TreemapDataAudit.makeRootNodes       (one root node container per script)
\* Strings are sequences of one-character strings, so that String.replace and
\* String.split are computed character by character.
EXTENDS Integers, Sequences, FiniteSets, TLC

VARIABLES
  sourceRoot,          \* prepareTreemapNodes: the sourceRoot argument
  sourcesData,         \* prepareTreemapNodes: the entries consumed so far
  topNode,             \* prepareTreemapNodes: the tree before collapseAll
  result,              \* prepareTreemapNodes: the returned tree
  pc,                  \* prepareTreemapNodes: "insert", "done" ("idle": not called)
  ScriptElements,      \* artifacts.ScriptElements
  bundles,             \* what JsBundles.request resolved to
  JsUsage,             \* artifacts.JsUsage: the srcs that have coverage
  duplicationByPath,   \* what ModuleDuplication.request resolved to (its keys)
  rootNodeContainers,  \* makeRootNodes: the list being built
  scriptIdx,           \* makeRootNodes: position of the second for loop
  mpc                  \* makeRootNodes: "start", "loop", "returned", "rejected"

vars == <<sourceRoot, sourcesData, topNode, result, pc, ScriptElements, bundles,
          JsUsage, duplicationByPath, rootNodeContainers, scriptIdx, mpc>>

treeVars == <<sourceRoot, sourcesData, topNode, result, pc>>

rootVars == <<ScriptElements, bundles, JsUsage, duplicationByPath,
              rootNodeContainers, scriptIdx, mpc>>

\* ------------------------------------------------------------------ bounds
\* Largest number of entries of sourcesData.
MaxEntries == 2

\* Largest resourceBytes of one source.
MaxBytes == 2

\* Largest number of script elements of the page.
MaxScripts == 3

\* ------------------------------------------------------- optional fields
\* An absent numeric field (Node.unusedBytes is `number=`).
Undefined == -1

\* An absent string field (Node.duplicate is `string=`); no character sequence.
NoDuplicate == <<"undefined">>

\* JavaScript truthiness of an optional number: defined and not 0.
Truthy(n) == n # Undefined /\ n # 0

\* ----------------------------------------------------------------- inputs
Slash == "/"

\* '<unmapped>', the path used for a falsy source key.
Unmapped == <<"<", "u", "n", "m", "a", "p", "p", "e", "d", ">">>

\* Source paths (keys of sourcesData) the model draws from.
Sources ==
  { <<>>,
    <<"a">>,
    <<"a", "/", "b">>,
    <<"a", "/", "c">>,
    <<"a", "/", "/", "b">>,
    <<"b", "/", "a">> }

\* Source roots the model draws from.
SourceRoots == { <<>>, <<"a">> }

\* SourceData: {resourceBytes, unusedBytes?, duplicate?} of one source. Its
\* unusedBytes is absent, 0 (fully used) or 1; its duplicate key, when it has
\* one, is its normalized path (makeRootNodes sets it so).
SourceDatas(source) ==
  [ resourceBytes : 1..MaxBytes,
    unusedBytes : {Undefined, 0, 1},
    duplicate : {NoDuplicate, source} ]

\* ------------------------------------------------------- string functions
\* Index of the first occurrence of pattern p in s, 0 when there is none.
IndexOf(s, p) ==
  LET hits == { i \in 1..(Len(s) - Len(p) + 1) : SubSeq(s, i, i + Len(p) - 1) = p }
  IN IF hits = {} THEN 0 ELSE CHOOSE i \in hits : \A j \in hits : i <= j

\* source.replace(sourceRoot, ''): removes the FIRST occurrence of the pattern,
\* wherever it is in the string.
Replace(s, p) ==
  LET i == IndexOf(s, p)
  IN IF i = 0 THEN s ELSE SubSeq(s, 1, i - 1) \o SubSeq(s, i + Len(p), Len(s))

\* Index of the first character at or after i that is not a slash (Len(s)+1 if none).
RECURSIVE SkipSlashes(_, _)
SkipSlashes(s, i) ==
  IF i <= Len(s) /\ s[i] = Slash THEN SkipSlashes(s, i + 1) ELSE i

\* s.split(/\/+/): the pieces between maximal runs of slashes; a leading or
\* trailing run yields an empty piece, and '' yields [''].
RECURSIVE Split(_)
Split(s) ==
  LET i == IndexOf(s, <<Slash>>)
  IN IF i = 0
       THEN <<s>>
       ELSE <<SubSeq(s, 1, i - 1)>> \o Split(SubSeq(s, SkipSlashes(s, i), Len(s)))

\* source || `<unmapped>`
OrUnmapped(source) == IF source = <<>> THEN Unmapped ELSE source

\* The segments addAllNodesInSourcePath walks for a key of sourcesData.
SourcePathSegments(root, source) == Split(Replace(OrUnmapped(source), root))

\* ------------------------------------------------------------- tree nodes
newNode(name) ==
  [ name |-> name, resourceBytes |-> 0, unusedBytes |-> Undefined,
    duplicate |-> NoDuplicate, children |-> <<>> ]

\* node.resourceBytes += data.resourceBytes;
\* if (data.unusedBytes) node.unusedBytes = (node.unusedBytes || 0) + data.unusedBytes;
ApplyData(node, data) ==
  [ node EXCEPT
      !.resourceBytes = @ + data.resourceBytes,
      !.unusedBytes = IF Truthy(data.unusedBytes)
                        THEN (IF Truthy(@) THEN @ ELSE 0) + data.unusedBytes
                        ELSE @ ]

\* node.children.find(child => child.name === segment): index of the first
\* such child, 0 when there is none.
FindChild(children, segment) ==
  LET hits == { i \in 1..Len(children) : children[i].name = segment }
  IN IF hits = {} THEN 0 ELSE CHOOSE i \in hits : \A j \in hits : i <= j

\* if (isLastSegment && data.duplicate !== undefined) node.duplicate = data.duplicate;
SetDuplicate(node, isLastSegment, data) ==
  IF isLastSegment /\ data.duplicate # NoDuplicate
    THEN [node EXCEPT !.duplicate = data.duplicate]
    ELSE node

\* The forEach over sourcePathSegments, from `node` downwards.
RECURSIVE AddSegments(_, _, _)
AddSegments(node, segments, data) ==
  LET segment == Head(segments)
      isLastSegment == Len(segments) = 1
      found == FindChild(node.children, segment)
      kids == IF found = 0 THEN Append(node.children, newNode(segment))
                           ELSE node.children
      k == IF found = 0 THEN Len(kids) ELSE found
      child == SetDuplicate(ApplyData(kids[k], data), isLastSegment, data)
      below == IF isLastSegment THEN child ELSE AddSegments(child, Tail(segments), data)
  IN [node EXCEPT !.children = [kids EXCEPT ![k] = below]]

addAllNodesInSourcePath(top, root, source, data) ==
  AddSegments(ApplyData(top, data), Split(Replace(source, root)), data)

\* The while loop with `node.name += node.children[0].name`: no separator.
RECURSIVE CollapseChainNoSlash(_)
CollapseChainNoSlash(node) ==
  IF Len(node.children) = 1
    THEN CollapseChainNoSlash([node EXCEPT
           !.name = @ \o node.children[1].name,
           !.children = node.children[1].children])
    ELSE node

\* while (node.children && node.children.length === 1) { ... }
RECURSIVE CollapseChain(_)
CollapseChain(node) ==
  IF Len(node.children) = 1
    THEN CollapseChain([node EXCEPT
           !.name = @ \o <<Slash>> \o node.children[1].name,
           !.children = node.children[1].children])
    ELSE node

\* A collapseAll without the recursion into the remaining children.
CollapseTopOnly(node) == CollapseChain(node)

RECURSIVE collapseAll(_)
collapseAll(node) ==
  LET n == CollapseChain(node)
  IN [n EXCEPT !.children = [i \in 1..Len(n.children) |-> collapseAll(n.children[i])]]

\* The tree after the for loop over the entries, given in iteration order.
RECURSIVE BuildNodes(_, _, _)
BuildNodes(top, root, entries) ==
  IF entries = <<>>
    THEN top
    ELSE BuildNodes(
           addAllNodesInSourcePath(top, root, OrUnmapped(entries[1][1]), entries[1][2]),
           root, Tail(entries))

prepareTreemapNodes(root, entries) ==
  collapseAll(BuildNodes(newNode(root), root, entries))

\* ------------------------------------------- prepareTreemapNodes, stepwise
\* sourcesData holds the entries the for loop has consumed so far.
EmptyData == [s \in {} |-> 0]

InitTree ==
  /\ sourceRoot \in SourceRoots
  /\ sourcesData = EmptyData
  /\ topNode = newNode(sourceRoot)
  /\ result = newNode(<<>>)
  /\ pc = "insert"

InitRootIdle ==
  /\ ScriptElements = <<>>
  /\ bundles = <<>>
  /\ JsUsage = {}
  /\ duplicationByPath = {}
  /\ rootNodeContainers = <<>>
  /\ scriptIdx = 1
  /\ mpc = "idle"

\* One iteration of `for (const [source, data] of Object.entries(sourcesData))`.
AddEntry ==
  /\ pc = "insert"
  /\ Cardinality(DOMAIN sourcesData) < MaxEntries
  /\ \E source \in Sources \ DOMAIN sourcesData : \E data \in SourceDatas(source) :
       /\ sourcesData' = [s \in DOMAIN sourcesData \cup {source} |->
                            IF s = source THEN data ELSE sourcesData[s]]
       /\ topNode' = addAllNodesInSourcePath(topNode, sourceRoot, OrUnmapped(source), data)
  /\ UNCHANGED <<sourceRoot, result, pc, rootVars>>

\* collapseAll(topNode); return topNode;  (topNode keeps the uncollapsed tree)
CollapseAndReturn ==
  /\ pc = "insert"
  /\ DOMAIN sourcesData # {}
  /\ result' = collapseAll(topNode)
  /\ pc' = "done"
  /\ UNCHANGED <<sourceRoot, sourcesData, topNode, rootVars>>

Next == AddEntry \/ CollapseAndReturn

Init == InitTree /\ InitRootIdle

Spec == Init /\ [][Next]_vars

\* ---------------------------------------------------------- makeRootNodes
\* artifacts.URL.finalUrl
FinalUrl == <<"u">>

\* A script element's content that is null.
NullContent == <<"null">>

\* Script elements the model draws from: inline ones (no src) with and
\* without content, external ones (the second one also carries content).
ScriptPool ==
  { [src |-> <<>>, content |-> NullContent],
    [src |-> <<>>, content |-> <<"x", "y">>],
    [src |-> <<"s">>, content |-> NullContent],
    [src |-> <<"t", "t">>, content |-> <<"z">>] }

\* A bundle of JsBundles: its script, its raw map and its sizes.files in key order.
BundleFor(src) ==
  [ script |-> [src |-> src],
    rawMap |-> [sourceRoot |-> <<>>],
    sizes |-> [files |-> << << <<"a", "/", "b">>, 2 >>, << <<"a", "/", "c">>, 1 >> >>] ]

BundleLists ==
  { <<>>, <<BundleFor(<<"s">>)>>, <<BundleFor(<<"s">>), BundleFor(<<"t", "t">>)>> }

RECURSIVE SeqsUpTo(_, _)
SeqsUpTo(S, n) ==
  IF n = 0 THEN { <<>> }
  ELSE LET shorter == SeqsUpTo(S, n - 1)
       IN shorter \cup { Append(q, x) : q \in shorter, x \in S }

\* (scriptElement.content || '').length
ContentLength(scriptElement) ==
  IF scriptElement.content = NullContent THEN 0 ELSE Len(scriptElement.content)

\* The first for loop: the summed content length of the scripts without src.
RECURSIVE InlineScriptLength(_)
InlineScriptLength(elements) ==
  IF elements = <<>> THEN 0
  ELSE (IF elements[1].src = <<>> THEN ContentLength(elements[1]) ELSE 0)
       + InlineScriptLength(Tail(elements))

\* rootNodeContainers.unshift(container): the container put first.
PushFront(containers, container) == <<container>> \o containers

\* rootNodeContainers.push(container)
Push(containers, container) == Append(containers, container)

\* A node without children, as the object literals of makeRootNodes build it.
LeafNode(name, resourceBytes, unusedBytes) ==
  [ name |-> name, resourceBytes |-> resourceBytes, unusedBytes |-> unusedBytes,
    duplicate |-> NoDuplicate, children |-> <<>> ]

\* bundles.find(bundle => scriptElement.src === bundle.script.src): the index
\* of the first such bundle, 0 when there is none.
FindBundle(src) ==
  LET hits == { i \in 1..Len(bundles) : bundles[i].script.src = src }
  IN IF hits = {} THEN 0 ELSE CHOOSE i \in hits : \A j \in hits : i <= j

\* ModuleDuplication.normalizeSource: only the equality of keys matters here.
NormalizeSource(source) == source

\* The per-source breakdowns a summary may report for a bundle: a value for no
\* file, for the first file only, or for every file.
WastedBreakdowns(files) ==
  { [i \in 1..Len(files) |-> Undefined],
    [i \in 1..Len(files) |-> IF i = 1 THEN 1 ELSE Undefined],
    [i \in 1..Len(files) |-> i - 1] }

\* The sourcesData makeRootNodes builds from a bundle and a breakdown, as
\* entries in the key order of bundle.sizes.files.
SourcesDataOf(bundle, wasted) ==
  [ i \in 1..Len(bundle.sizes.files) |->
      LET source == bundle.sizes.files[i][1]
          key == NormalizeSource(source)
      IN << source,
            [ resourceBytes |-> bundle.sizes.files[i][2],
              unusedBytes |-> wasted[i],
              duplicate |-> IF key \in duplicationByPath THEN key ELSE NoDuplicate ] >> ]

RECURSIVE TotalBytes(_)
TotalBytes(files) ==
  IF files = <<>> THEN 0 ELSE files[1][2] + TotalBytes(Tail(files))

InitTreeIdle ==
  /\ sourceRoot = <<>>
  /\ sourcesData = EmptyData
  /\ topNode = newNode(<<>>)
  /\ result = newNode(<<>>)
  /\ pc = "idle"

InitRootNodes ==
  /\ InitTreeIdle
  /\ ScriptElements \in SeqsUpTo(ScriptPool, MaxScripts)
  /\ bundles \in BundleLists
  /\ JsUsage \in SUBSET { <<"s">>, <<"t", "t">> }
  /\ duplicationByPath \in { {}, { <<"a", "/", "b">> } }
  /\ rootNodeContainers = <<>>
  /\ scriptIdx = 1
  /\ mpc = "start"

\* Lines 159-181: the inline container, then the two awaited requests.
Begin ==
  /\ mpc = "start"
  /\ LET inlineScriptLength == InlineScriptLength(ScriptElements) IN
       rootNodeContainers' =
         IF inlineScriptLength # 0
           THEN Push(rootNodeContainers,
                     [ name |-> FinalUrl,
                       node |-> LeafNode(FinalUrl, inlineScriptLength, Undefined) ])
           ELSE rootNodeContainers
  /\ mpc' = "loop"
  /\ UNCHANGED <<treeVars, ScriptElements, bundles, JsUsage, duplicationByPath, scriptIdx>>

AtScript ==
  /\ mpc = "loop"
  /\ scriptIdx <= Len(ScriptElements)

HasBundleAndCoverage(scriptElement) ==
  /\ FindBundle(scriptElement.src) # 0
  /\ scriptElement.src \in JsUsage

\* if (!scriptElement.src) continue;
SkipInline ==
  /\ AtScript
  /\ ScriptElements[scriptIdx].src = <<>>
  /\ scriptIdx' = scriptIdx + 1
  /\ UNCHANGED <<treeVars, ScriptElements, bundles, JsUsage, duplicationByPath,
                 rootNodeContainers, mpc>>

\* if (!bundle || !scriptCoverages) { push the placeholder; continue; }
Placeholder ==
  /\ AtScript
  /\ LET scriptElement == ScriptElements[scriptIdx] IN
       /\ scriptElement.src # <<>>
       /\ ~HasBundleAndCoverage(scriptElement)
       /\ rootNodeContainers' =
            Push(rootNodeContainers,
                 [ name |-> scriptElement.src,
                   node |-> LeafNode(scriptElement.src, Len(scriptElement.src), Undefined) ])
  /\ scriptIdx' = scriptIdx + 1
  /\ UNCHANGED <<treeVars, ScriptElements, bundles, JsUsage, duplicationByPath, mpc>>

\* The summary resolves with sourcesWastedBytes: a node for each module.
Detailed ==
  /\ AtScript
  /\ LET scriptElement == ScriptElements[scriptIdx] IN
       /\ scriptElement.src # <<>>
       /\ HasBundleAndCoverage(scriptElement)
       /\ LET bundle == bundles[FindBundle(scriptElement.src)] IN
          \E wasted \in WastedBreakdowns(bundle.sizes.files) :
            rootNodeContainers' =
              Push(rootNodeContainers,
                   [ name |-> scriptElement.src,
                     node |-> prepareTreemapNodes(bundle.rawMap.sourceRoot,
                                                  SourcesDataOf(bundle, wasted)) ])
  /\ scriptIdx' = scriptIdx + 1
  /\ UNCHANGED <<treeVars, ScriptElements, bundles, JsUsage, duplicationByPath, mpc>>

\* The summary resolves without sourcesWastedBytes: a single node.
Aggregate ==
  /\ AtScript
  /\ LET scriptElement == ScriptElements[scriptIdx] IN
       /\ scriptElement.src # <<>>
       /\ HasBundleAndCoverage(scriptElement)
       /\ LET bundle == bundles[FindBundle(scriptElement.src)]
              totalBytes == TotalBytes(bundle.sizes.files)
          IN \E wastedBytes \in 0..totalBytes :
               rootNodeContainers' =
                 Push(rootNodeContainers,
                      [ name |-> scriptElement.src,
                        node |-> LeafNode(scriptElement.src, totalBytes, wastedBytes) ])
  /\ scriptIdx' = scriptIdx + 1
  /\ UNCHANGED <<treeVars, ScriptElements, bundles, JsUsage, duplicationByPath, mpc>>

\* The awaited UnusedJavaScriptSummary.request rejects: nothing catches it,
\* so the promise of makeRootNodes rejects.
SummaryRejects ==
  /\ AtScript
  /\ ScriptElements[scriptIdx].src # <<>>
  /\ HasBundleAndCoverage(ScriptElements[scriptIdx])
  /\ mpc' = "rejected"
  /\ UNCHANGED <<treeVars, ScriptElements, bundles, JsUsage, duplicationByPath,
                 rootNodeContainers, scriptIdx>>

\* return rootNodeContainers;
Return ==
  /\ mpc = "loop"
  /\ scriptIdx > Len(ScriptElements)
  /\ mpc' = "returned"
  /\ UNCHANGED <<treeVars, ScriptElements, bundles, JsUsage, duplicationByPath,
                 rootNodeContainers, scriptIdx>>

NextRootNodes ==
  \/ Begin
  \/ SkipInline
  \/ Placeholder
  \/ Detailed
  \/ Aggregate
  \/ SummaryRejects
  \/ Return

SpecRootNodes == InitRootNodes /\ [][NextRootNodes]_vars

\* ---------------------------------------------------- reading the trees
\* Every node of a tree with its walk: the names of the children descended
\* into from the root (the root's walk is empty).
RECURSIVE NodesAt(_, _)
NodesAt(node, walk) ==
  { [walk |-> walk, node |-> node] } \cup
  UNION { NodesAt(node.children[i], Append(walk, node.children[i].name)) :
            i \in 1..Len(node.children) }

Nodes(tree) == NodesAt(tree, <<>>)

\* names joined by "/".
RECURSIVE Join(_)
Join(names) ==
  IF names = <<>> THEN <<>>
  ELSE IF Len(names) = 1 THEN names[1]
  ELSE names[1] \o <<Slash>> \o Join(Tail(names))

\* The name of the root, then "/" and a name for every name walked.
FullName(rootName, walk) == Join(<<rootName>> \o walk)

RECURSIVE SumBytes(_)
SumBytes(children) ==
  IF children = <<>> THEN 0 ELSE children[1].resourceBytes + SumBytes(Tail(children))

IsPrefix(p, s) == Len(p) <= Len(s) /\ SubSeq(s, 1, Len(p)) = p

\* The names down the chain of only children that starts below node.
RECURSIVE OnlyChildChain(_)
OnlyChildChain(node) ==
  IF Len(node.children) = 1
    THEN <<node.children[1].name>> \o OnlyChildChain(node.children[1])
    ELSE <<>>

\* The sources consumed so far whose path goes through the node at walk.
Contributors(walk) ==
  { s \in DOMAIN sourcesData : IsPrefix(walk, SourcePathSegments(sourceRoot, s)) }

\* The summed resourceBytes of a set of consumed sources.
RECURSIVE SumOverSources(_)
SumOverSources(keys) ==
  IF keys = {} THEN 0
  ELSE LET s == CHOOSE k \in keys : TRUE
       IN sourcesData[s].resourceBytes + SumOverSources(keys \ {s})

\* All orders in which the entries of a set of keys can be iterated.
Orderings(keys) ==
  { o \in [1..Cardinality(keys) -> keys] : \A i, j \in DOMAIN o : i # j => o[i] # o[j] }

EntriesIn(order) == [i \in DOMAIN order |-> <<order[i], sourcesData[order[i]]>>]

\* A tree up to the order of children: its nodes by walk.
Canon(tree) ==
  { [ walk |-> r.walk, name |-> r.node.name, resourceBytes |-> r.node.resourceBytes,
      unusedBytes |-> r.node.unusedBytes, duplicate |-> r.node.duplicate,
      leaf |-> r.node.children = <<>> ] : r \in Nodes(tree) }

\* ------------------------------------------------------------------ claims
SumOfChildren(tree) ==
  \A r \in Nodes(tree) :
    r.node.children # <<>> => r.node.resourceBytes = SumBytes(r.node.children)

\* C1: every node that has children has resourceBytes equal to the sum of its
\* children's resourceBytes, in the tree before collapseAll and in the
\* returned tree, also when one source path is a segment-prefix of another.
C1_SumInvariant ==
  /\ SumOfChildren(topNode)
  /\ pc = "done" => SumOfChildren(result)

\* C2 as stated: the returned root is named exactly rootPrefix, and a single
\* first segment with two or more children stays the root's single child.
C2_RootNamedRootPrefix ==
  pc = "done" =>
    /\ result.name = sourceRoot
    /\ (Len(topNode.children) = 1 /\ Len(topNode.children[1].children) >= 2) =>
         /\ Len(result.children) = 1
         /\ result.children[1].name = topNode.children[1].name

\* C2 as amended: the returned root is named rootPrefix followed by "/" and the
\* name of every node of the chain of only children below the uncollapsed root;
\* it is exactly rootPrefix exactly when the uncollapsed root does not have a
\* single child. A single first segment with two or more children is merged
\* into the root, which then carries the summed resourceBytes of all sources
\* and has that segment's children as its own.
C2_RootNameIsChain ==
  pc = "done" =>
    /\ result.name = FullName(sourceRoot, OnlyChildChain(topNode))
    /\ (result.name = sourceRoot) <=> (Len(topNode.children) # 1)
    /\ result.resourceBytes = SumOverSources(DOMAIN sourcesData)
    /\ (Len(topNode.children) = 1 /\ Len(topNode.children[1].children) >= 2) =>
         LET only == topNode.children[1] IN
         /\ result.name = sourceRoot \o <<Slash>> \o only.name
         /\ Len(result.children) = Len(only.children)
         /\ \A i \in 1..Len(only.children) :
              /\ IsPrefix(only.children[i].name, result.children[i].name)
              /\ result.children[i].resourceBytes = only.children[i].resourceBytes

\* The example of C2: rootPrefix "" and two sources below one first segment.
C2_Witness ==
  /\ pc = "done"
  /\ sourceRoot = <<>>
  /\ DOMAIN sourcesData = { <<"a", "/", "b">>, <<"a", "/", "c">> }
  /\ result.name = <<"/", "a">>
  /\ Len(result.children) = 2

\* C3: with exactly one source and rootPrefix "", the returned node has no
\* children, is named exactly the source path (segments joined by single "/",
\* no leading separator) and carries the source's resourceBytes and unusedBytes.
C3_SingleSource ==
  (pc = "done" /\ sourceRoot = <<>> /\ Cardinality(DOMAIN sourcesData) = 1) =>
    \A s \in DOMAIN sourcesData :
      /\ result.children = <<>>
      /\ result.name = Join(SourcePathSegments(sourceRoot, s))
      /\ result.resourceBytes = sourcesData[s].resourceBytes
      /\ result.unusedBytes = sourcesData[s].unusedBytes

\* C4: every leaf of the tree before collapseAll has a childless node of the
\* returned tree standing for the same source (the same names from the root)
\* with the same resourceBytes, unusedBytes and duplicate key.
C4_LeafPreservation ==
  pc = "done" =>
    \A r \in Nodes(topNode) :
      r.node.children = <<>> =>
        \E q \in Nodes(result) :
          /\ q.node.children = <<>>
          /\ FullName(result.name, q.walk) = FullName(topNode.name, r.walk)
          /\ q.node.resourceBytes = r.node.resourceBytes
          /\ q.node.unusedBytes = r.node.unusedBytes
          /\ q.node.duplicate = r.node.duplicate

\* C5: a node carries unusedBytes exactly when at least one source
\* contributing to it has a defined unusedBytes, a defined 0 included.
C5_UnusedBytesPresence ==
  \A r \in Nodes(topNode) :
    (r.node.unusedBytes # Undefined) <=>
      (\E s \in Contributors(r.walk) : sourcesData[s].unusedBytes # Undefined)

\* C6: in the returned tree no node other than the root has exactly one child.
C6_NoSingleChild ==
  pc = "done" =>
    \A r \in Nodes(result) : r.walk # <<>> => Len(r.node.children) # 1

\* A node below the root had exactly one child before collapseAll, and the
\* returned tree still has nodes below its root.
C6_Witness ==
  /\ pc = "done"
  /\ \E r \in Nodes(topNode) : r.walk # <<>> /\ Len(r.node.children) = 1
  /\ Len(result.children) >= 2

\* C9: whatever the order in which the same entries are iterated, the tree is
\* the same up to the order of children, before and after collapseAll.
C9_OrderIndependence ==
  \A o \in Orderings(DOMAIN sourcesData) :
    LET other == BuildNodes(newNode(sourceRoot), sourceRoot, EntriesIn(o)) IN
    /\ Canon(other) = Canon(topNode)
    /\ pc = "done" => Canon(collapseAll(other)) = Canon(result)

\* C10: every source path is the root prefix followed by the "/"-joined names
\* of a walk from the root of the uncollapsed tree.
C10_PathReconstruction ==
  \A s \in DOMAIN sourcesData :
    \E r \in Nodes(topNode) :
      /\ r.walk # <<>>
      /\ sourceRoot \o Join(r.walk) = OrUnmapped(s)

\* The names of the containers, in list order.
ContainerNames(containers) == [i \in DOMAIN containers |-> containers[i].name]

IsExternal(scriptElement) == scriptElement.src # <<>>

SrcOf(elements) == [i \in DOMAIN elements |-> elements[i].src]

\* Some inline script has content: the summed inline length is nonzero.
SomeInlineContent ==
  \E i \in DOMAIN ScriptElements :
    /\ ScriptElements[i].src = <<>>
    /\ ScriptElements[i].content # NullContent
    /\ Len(ScriptElements[i].content) > 0

\* C7: the returned list is the inline container (named after the final URL,
\* present exactly when the inline scripts have content) followed by one
\* container per script element with a src, named that src, in element order.
C7_OutputOrder ==
  mpc = "returned" =>
    /\ ContainerNames(rootNodeContainers) =
         (IF SomeInlineContent THEN <<FinalUrl>> ELSE <<>>)
           \o SrcOf(SelectSeq(ScriptElements, IsExternal))
    /\ SomeInlineContent =>
         /\ rootNodeContainers[1].node.name = FinalUrl
         /\ rootNodeContainers[1].node.children = <<>>

\* A returned list with the inline container and two external scripts of
\* different srcs, one of them with a detailed tree.
C7_Witness ==
  /\ mpc = "returned"
  /\ Len(rootNodeContainers) >= 3
  /\ rootNodeContainers[1].name = FinalUrl
  /\ \E i, j \in 2..Len(rootNodeContainers) :
       /\ rootNodeContainers[i].name # rootNodeContainers[j].name
       /\ rootNodeContainers[i].node.children # <<>>

\* C8: trouble with one script (missing bundle or coverage, a failing summary
\* request) never makes makeRootNodes raise; it still returns its list.
C8_NeverRaises == mpc # "rejected"

====
